---------------------------- MODULE Spec2Model ----------------------------
(***************************************************************************)
(* A model of SimpleFib: the record database (simplefib/db.py), the        *)
(* memoized Fibonacci engine (simplefib/fib.py), the predictor             *)
(* (simplefib/predict.py) and the command handlers (simplefib/cli.py).     *)
(*                                                                         *)
(* Conventions.  A Python str is a sequence of one-character strings when  *)
(* its text is formatted or parsed (datetime.isoformat), and an atomic     *)
(* TLA+ string otherwise.  A UID is modelled by its string, as a sequence  *)
(* of atoms, so that the `+=` of cli.py is sequence concatenation.  A      *)
(* float weight is the exact rational [num, den] (den > 0); the sampled    *)
(* weights are binary fractions, on which float arithmetic is exact.       *)
(* Python's assert statements are modelled as enabled (the interpreter's   *)
(* default mode).                                                          *)
(***************************************************************************)
EXTENDS Integers, Sequences, FiniteSets, TLC

VARIABLES
    recordDict,     \* Database.recordDict, a Python dict UID -> Record (db.py:212)
    fibNumbers,     \* FibNumbers.__fibNumbers, the module-level memo (fib.py:8, 47)
    timeLookup,     \* Predictor.timeLookup                         (predict.py:30)
    now,            \* the system clock, as a timedelta since BaseDate
    defaultDTime,   \* the default of Topic.__init__'s dTime, evaluated when db.py is imported
    ret             \* the last step: the call made and its outcome

vars == <<recordDict, fibNumbers, timeLookup, now, defaultDTime, ret>>

(***************************************************************************)
(* Bounds of the model.                                                    *)
(***************************************************************************)
MaxN == 9            \* largest index passed to getNthFibNumber
MaxRecords == 4      \* longest record list a Database is constructed from
MaxSeqLen == 2       \* longest numSeq passed to fibGenerator

(***************************************************************************)
(* Generic helpers.                                                        *)
(***************************************************************************)
Range(s) == {s[i] : i \in 1..Len(s)}

RECURSIVE SeqsUpTo(_, _)
SeqsUpTo(S, n) ==
    IF n = 0 THEN {<<>>}
    ELSE LET shorter == SeqsUpTo(S, n - 1)
         IN  shorter \cup {Append(s, x) : s \in {t \in shorter : Len(t) = n - 1}, x \in S}

NoRet == [op |-> "none", ok |-> TRUE]

(***************************************************************************)
(* The Fibonacci engine, fib.py.                                           *)
(***************************************************************************)
\* fib.py:19-22, the loop `for i in range(len(memo), n): memo.append(memo[i-1] + memo[i-2])`;
\* i is the 0-based loop index, equal to the length of the memo at each iteration.
RECURSIVE extendMemoSameIndex(_, _, _)
extendMemoSameIndex(memo, i, n) ==
    IF i >= n THEN memo
    ELSE extendMemoSameIndex(Append(memo, memo[i] + memo[i]), i + 1, n)

RECURSIVE extendMemoOneMore(_, _, _)
extendMemoOneMore(memo, i, n) ==
    IF i > n THEN memo
    ELSE extendMemoOneMore(Append(memo, memo[i] + memo[i - 1]), i + 1, n)

RECURSIVE extendMemo(_, _, _)
extendMemo(memo, i, n) ==
    IF i >= n THEN memo
    ELSE extendMemo(Append(memo, memo[i] + memo[i - 1]), i + 1, n)

\* fib.py:10-24: the outcome of getNthFibNumber(n) on the memo: [ok, val, memo].
getNth(memo, n) ==
    IF n = 0 THEN [ok |-> FALSE, val |-> "ValueError", memo |-> memo]
    ELSE IF n < 0 THEN [ok |-> FALSE, val |-> "ValueError", memo |-> memo]
    ELSE IF n <= Len(memo) THEN [ok |-> TRUE, val |-> memo[n], memo |-> memo]
    ELSE LET m == extendMemo(memo, Len(memo), n)
         IN  [ok |-> TRUE, val |-> m[n], memo |-> m]

\* fib.py:10-24 as a call
getNthFibNumber(n) ==
    LET r == getNth(fibNumbers, n)
    IN  /\ fibNumbers' = r.memo
        /\ ret' = [op |-> "getNthFibNumber", n |-> n, ok |-> r.ok, val |-> r.val]
        /\ UNCHANGED <<recordDict, timeLookup, now, defaultDTime>>

\* fib.py:33-35: the generator, consumed to its end or to the first failing index:
\* [ok, val (the terms yielded), memo].
RECURSIVE fibGen(_, _, _)
fibGen(memo, numSeq, out) ==
    IF numSeq = <<>> THEN [ok |-> TRUE, val |-> out, memo |-> memo]
    ELSE LET r == getNth(memo, Head(numSeq))
         IN  IF r.ok THEN fibGen(r.memo, Tail(numSeq), Append(out, r.val))
             ELSE [ok |-> FALSE, val |-> out, memo |-> r.memo]

fibGenerator(numSeq) ==
    LET r == fibGen(fibNumbers, numSeq, <<>>)
    IN  /\ fibNumbers' = r.memo
        /\ ret' = [op |-> "fibGenerator", n |-> numSeq, ok |-> r.ok, val |-> r.val]
        /\ UNCHANGED <<recordDict, timeLookup, now, defaultDTime>>

\* fib.py:37-44: the scan of isXAFibNumber(x) from index i: [val, memo].
RECURSIVE isXAFib(_, _, _)
isXAFib(memo, x, i) ==
    LET r == getNth(memo, i)
    IN  IF r.val = x THEN [val |-> TRUE, memo |-> r.memo]
        ELSE IF r.val > x THEN [val |-> FALSE, memo |-> r.memo]
        ELSE isXAFib(r.memo, x, i + 1)

isXAFibNumber(x) ==
    LET r == isXAFib(fibNumbers, x, 1)
    IN  /\ fibNumbers' = r.memo
        /\ ret' = [op |-> "isXAFibNumber", n |-> x, ok |-> TRUE, val |-> r.val]
        /\ UNCHANGED <<recordDict, timeLookup, now, defaultDTime>>

\* The 1-indexed Fibonacci sequence of the glossary: 1, 1, 2, 3, 5, 8, ...
RECURSIVE F(_)
F(n) == IF n <= 2 THEN 1 ELSE F(n - 1) + F(n - 2)


(***************************************************************************)
(* datetime, as used by db.py and predict.py.  A datetime is its fields:   *)
(* [year, month, day, hour, minute, second, microsecond, tz], where tz is  *)
(* [aware, offset]: aware = FALSE for a naive datetime, else the UTC       *)
(* offset in minutes.  The clock is a timedelta [days, seconds,            *)
(* microseconds] since 2023-01-01T00:00:00 UTC.                            *)
(***************************************************************************)
UTC == [aware |-> TRUE, offset |-> 0]
Naive == [aware |-> FALSE, offset |-> 0]

IsLeap(y) == (y % 4 = 0) /\ ((y % 100 # 0) \/ (y % 400 = 0))
DaysInYear(y) == IF IsLeap(y) THEN 366 ELSE 365
DaysInMonth(y, m) ==
    IF m = 2 THEN (IF IsLeap(y) THEN 29 ELSE 28)
    ELSE IF m \in {4, 6, 9, 11} THEN 30 ELSE 31

\* days from 2023-01-01 to the first day of year y
RECURSIVE DaysBeforeYear(_)
DaysBeforeYear(y) ==
    IF y = 2023 THEN 0
    ELSE IF y > 2023 THEN DaysBeforeYear(y - 1) + DaysInYear(y - 1)
    ELSE DaysBeforeYear(y + 1) - DaysInYear(y)

RECURSIVE DaysBeforeMonth(_, _)
DaysBeforeMonth(y, m) ==
    IF m = 1 THEN 0 ELSE DaysBeforeMonth(y, m - 1) + DaysInMonth(y, m - 1)

\* date.toordinal, relative to 2023-01-01
Ymd2Ord(y, m, d) == DaysBeforeYear(y) + DaysBeforeMonth(y, m) + (d - 1)

RECURSIVE OrdYear(_, _)
OrdYear(y, n) ==
    IF n < 0 THEN OrdYear(y - 1, n + DaysInYear(y - 1))
    ELSE IF n >= DaysInYear(y) THEN OrdYear(y + 1, n - DaysInYear(y))
    ELSE [year |-> y, rest |-> n]

RECURSIVE OrdMonth(_, _, _)
OrdMonth(y, m, n) ==
    IF n >= DaysInMonth(y, m) THEN OrdMonth(y, m + 1, n - DaysInMonth(y, m))
    ELSE [month |-> m, day |-> n + 1]

\* date.fromordinal, relative to 2023-01-01
Ord2Ymd(n) ==
    LET yr == OrdYear(2023, n)
        md == OrdMonth(yr.year, 1, yr.rest)
    IN  [year |-> yr.year, month |-> md.month, day |-> md.day]

\* datetime.now(tz=timezone.utc) when the clock reads c
DatetimeNow(c) ==
    LET ymd == Ord2Ymd(c.days)
    IN  [year |-> ymd.year, month |-> ymd.month, day |-> ymd.day,
         hour |-> c.seconds \div 3600, minute |-> (c.seconds % 3600) \div 60,
         second |-> c.seconds % 60, microsecond |-> c.microseconds, tz |-> UTC]

\* dt + timedelta(days=k): the date moves, the time of day and tzinfo stay
AddDays(dt, k) ==
    LET ymd == Ord2Ymd(Ymd2Ord(dt.year, dt.month, dt.day) + k)
    IN  [dt EXCEPT !.year = ymd.year, !.month = ymd.month, !.day = ymd.day]

\* the order of two clock readings
ClockLeq(a, b) ==
    \/ a.days < b.days
    \/ a.days = b.days /\ a.seconds < b.seconds
    \/ a.days = b.days /\ a.seconds = b.seconds /\ a.microseconds <= b.microseconds

Digits == <<"0", "1", "2", "3", "4", "5", "6", "7", "8", "9">>
DigitVal(c) == (CHOOSE i \in 1..10 : Digits[i] = c) - 1

\* "%0<width>d" % n
RECURSIVE Pad(_, _)
Pad(n, width) ==
    IF width = 0 THEN <<>> ELSE Append(Pad(n \div 10, width - 1), Digits[(n % 10) + 1])

\* int(s) of a string of digits
RECURSIVE ParseInt(_)
ParseInt(s) ==
    IF s = <<>> THEN 0
    ELSE ParseInt(SubSeq(s, 1, Len(s) - 1)) * 10 + DigitVal(s[Len(s)])

\* the fraction digits of a time, scaled to microseconds
RECURSIVE Scale(_, _)
Scale(n, k) == IF k = 0 THEN n ELSE Scale(n * 10, k - 1)

\* datetime.isoformat(): YYYY-MM-DDTHH:MM:SS[.ffffff][+HH:MM]
isoformatNoMicroseconds(dt) ==
    Pad(dt.year, 4) \o <<"-">> \o Pad(dt.month, 2) \o <<"-">> \o Pad(dt.day, 2)
    \o <<"T">> \o Pad(dt.hour, 2) \o <<":">> \o Pad(dt.minute, 2) \o <<":">> \o Pad(dt.second, 2)
    \o (IF dt.tz.aware
        THEN LET a == IF dt.tz.offset < 0 THEN -dt.tz.offset ELSE dt.tz.offset
             IN  <<IF dt.tz.offset < 0 THEN "-" ELSE "+">>
                 \o Pad(a \div 60, 2) \o <<":">> \o Pad(a % 60, 2)
        ELSE <<>>)

isoformat(dt) ==
    Pad(dt.year, 4) \o <<"-">> \o Pad(dt.month, 2) \o <<"-">> \o Pad(dt.day, 2)
    \o <<"T">> \o Pad(dt.hour, 2) \o <<":">> \o Pad(dt.minute, 2) \o <<":">> \o Pad(dt.second, 2)
    \o (IF dt.microsecond # 0 THEN <<".">> \o Pad(dt.microsecond, 6) ELSE <<>>)
    \o (IF dt.tz.aware
        THEN LET a == IF dt.tz.offset < 0 THEN -dt.tz.offset ELSE dt.tz.offset
             IN  <<IF dt.tz.offset < 0 THEN "-" ELSE "+">>
                 \o Pad(a \div 60, 2) \o <<":">> \o Pad(a % 60, 2)
        ELSE <<>>)

\* datetime.fromisoformat(s), on the strings isoformat() writes
fromisoformat(s) ==
    LET t == SubSeq(s, 12, Len(s))
        signs == {i \in 1..Len(t) : t[i] \in {"+", "-"}}
        tzAt == IF signs = {} THEN Len(t) + 1 ELSE CHOOSE i \in signs : \A j \in signs : i <= j
        clock == SubSeq(t, 1, tzAt - 1)
        zone == SubSeq(t, tzAt + 1, Len(t))
        frac == IF Len(clock) > 9 /\ clock[9] = "." THEN SubSeq(clock, 10, Len(clock)) ELSE <<>>
        off == IF signs = {} THEN 0
               ELSE (ParseInt(SubSeq(zone, 1, 2)) * 60 + ParseInt(SubSeq(zone, 4, 5)))
                    * (IF t[tzAt] = "-" THEN -1 ELSE 1)
    IN  [year |-> ParseInt(SubSeq(s, 1, 4)), month |-> ParseInt(SubSeq(s, 6, 7)),
         day |-> ParseInt(SubSeq(s, 9, 10)),
         hour |-> ParseInt(SubSeq(clock, 1, 2)), minute |-> ParseInt(SubSeq(clock, 4, 5)),
         second |-> ParseInt(SubSeq(clock, 7, 8)),
         microsecond |-> IF frac = <<>> THEN 0 ELSE Scale(ParseInt(frac), 6 - Len(frac)),
         tz |-> [aware |-> signs # {}, offset |-> off]]


(***************************************************************************)
(* UID, uid.py.  A UID object is [uid |-> its string].                     *)
(***************************************************************************)
\* uid.py:12-19, UID(uid) for a given string: self.__uid = ""; self.__uid += uid
UID(str) == [uid |-> <<>> \o str]
\* uid.py:34-42
toString(u) == u.uid
\* uid.py:44-54
fromString(uidString) == UID(uidString)

(***************************************************************************)
(* Records, db.py.                                                         *)
(***************************************************************************)
\* db.py:128
NEW_TOPIC_DEFAULT_FIB == 2

\* db.py:78-86, Subject.__init__
Subject(uid, name, active, weight, bias) ==
    [kind |-> "Subject", uid |-> uid, name |-> name, active |-> active,
     weight |-> weight, bias |-> bias]

\* db.py:147-161, Topic.__init__ with every argument given
Topic(uid, name, subjectUID, active, fibNumber, dTime) ==
    [kind |-> "Topic", uid |-> uid, name |-> name, subjectUID |-> subjectUID,
     active |-> active, lastStudy |-> dTime, fibNumber |-> fibNumber]

\* db.py:88-104 and db.py:163-180, Record.toJSON
toJSON(record) ==
    IF record.kind = "Subject"
    THEN [uid |-> toString(record.uid), name |-> record.name, active |-> record.active,
          weight |-> record.weight, bias |-> record.bias, type |-> "subject"]
    ELSE [uid |-> toString(record.uid), name |-> record.name,
          subjectUID |-> toString(record.subjectUID), active |-> record.active,
          lastStudy |-> isoformat(record.lastStudy), fibNumber |-> record.fibNumber,
          type |-> "topic"]

\* db.py:106-124, Subject.fromJSON
SubjectFromJSON(dictIn) ==
    Subject(fromString(dictIn.uid), dictIn.name, dictIn.active, dictIn.weight, dictIn.bias)

\* db.py:182-201, Topic.fromJSON
TopicFromJSON(dictIn) ==
    Topic(fromString(dictIn.uid), dictIn.name, fromString(dictIn.subjectUID), dictIn.active,
          dictIn.fibNumber, fromisoformat(dictIn.lastStudy))

(***************************************************************************)
(* A Python dict: the sequence of its <<key, value>> items in insertion    *)
(* order, with no key twice.                                               *)
(***************************************************************************)
Keys(d) == {d[i][1] : i \in 1..Len(d)}
Values(d) == [i \in 1..Len(d) |-> d[i][2]]
DictGet(d, k) == d[CHOOSE i \in 1..Len(d) : d[i][1] = k][2]
\* d[k] = v: a present key keeps its place and takes the new value
DictSet(d, k, v) ==
    IF k \in Keys(d) THEN [i \in 1..Len(d) |-> IF d[i][1] = k THEN <<k, v>> ELSE d[i]]
    ELSE Append(d, <<k, v>>)
\* del d[k]
DictDel(d, k) == SelectSeq(d, LAMBDA item : item[1] # k)
\* the mapping of a dict, without its order
AsMap(d) == [k \in Keys(d) |-> DictGet(d, k)]

(***************************************************************************)
(* Database, db.py.  An operation on a database value db (its recordDict)  *)
(* yields [ok, db, val]: whether it returned, the recordDict after it and  *)
(* what it returned or raised.                                             *)
(***************************************************************************)
\* db.py:211-214, Database.__init__(records)
RECURSIVE Database(_)
Database(records) ==
    IF records = <<>> THEN <<>>
    ELSE LET record == records[Len(records)]
         IN  DictSet(Database(SubSeq(records, 1, Len(records) - 1)), record.uid, record)

\* db.py:277-284
dbInsertNoAssert(db, record) ==
    [ok |-> TRUE, db |-> DictSet(db, record.uid, record), val |-> "None"]

dbInsertKeyedBySubject(db, record) ==
    IF record.uid \in Keys(db)
    THEN [ok |-> FALSE, db |-> db, val |-> "AssertionError"]
    ELSE [ok |-> TRUE, val |-> "None",
          db |-> DictSet(db, IF record.kind = "Topic" THEN record.subjectUID ELSE record.uid,
                         record)]

dbInsert(db, record) ==
    IF record.uid \in Keys(db)
    THEN [ok |-> FALSE, db |-> db, val |-> "AssertionError"]
    ELSE [ok |-> TRUE, db |-> DictSet(db, record.uid, record), val |-> "None"]

\* db.py:286-293
dbDelete(db, uid) ==
    IF uid \notin Keys(db)
    THEN [ok |-> FALSE, db |-> db, val |-> "AssertionError"]
    ELSE [ok |-> TRUE, db |-> DictDel(db, uid), val |-> "None"]

\* db.py:295-302
dbGet(db, uid) ==
    IF uid \notin Keys(db)
    THEN [ok |-> FALSE, db |-> db, val |-> "AssertionError"]
    ELSE [ok |-> TRUE, db |-> db, val |-> DictGet(db, uid)]

\* db.py:304-311
dbUpdateMerge(db, record) ==
    IF record.uid \notin Keys(db)
    THEN [ok |-> FALSE, db |-> db, val |-> "AssertionError"]
    ELSE [ok |-> TRUE, val |-> "None",
          db |-> DictSet(db, record.uid, [record EXCEPT !.name = DictGet(db, record.uid).name])]

dbUpdate(db, record) ==
    IF record.uid \notin Keys(db)
    THEN [ok |-> FALSE, db |-> db, val |-> "AssertionError"]
    ELSE [ok |-> TRUE, db |-> DictSet(db, record.uid, record), val |-> "None"]

\* the predicates passed to query, by name
Predicates == {"any", "active", "named_t"}
Holds(predicate, record) ==
    CASE predicate = "any" -> TRUE
      [] predicate = "active" -> record.active
      [] predicate = "named_t" -> record.name = "t"

\* db.py:315-328, Database.query(queryTypes, query): the recordDict of the new Database
dbQueryAnyKind(db, queryTypes, predicate) ==
    Database(SelectSeq(Values(db), LAMBDA record : Holds(predicate, record)))

dbQuery(db, queryTypes, predicate) ==
    Database(SelectSeq(Values(db),
                       LAMBDA record : record.kind \in queryTypes /\ Holds(predicate, record)))

\* db.py:216-231, Database.toJSONDict: a dict from uid string to JSON object
RECURSIVE toJSONItems(_)
toJSONItems(db) ==
    IF db = <<>> THEN <<>>
    ELSE LET item == db[Len(db)]
         IN  DictSet(toJSONItems(SubSeq(db, 1, Len(db) - 1)), toString(item[1]), toJSON(item[2]))

toJSONDict(db) == toJSONItems(db)

\* db.py:233-256, Database.fromJSONDict: [ok, db]
RECURSIVE fromJSONRecords(_)
fromJSONRecords(dictIn) ==
    IF dictIn = <<>> THEN [ok |-> TRUE, records |-> <<>>]
    ELSE LET rest == fromJSONRecords(SubSeq(dictIn, 1, Len(dictIn) - 1))
             recordDictIn == dictIn[Len(dictIn)][2]
         IN  IF ~rest.ok THEN rest
             ELSE IF "type" \notin DOMAIN recordDictIn THEN [ok |-> FALSE, records |-> <<>>]
             ELSE IF recordDictIn.type = "subject"
                  THEN [ok |-> TRUE, records |-> Append(rest.records, SubjectFromJSON(recordDictIn))]
             ELSE IF recordDictIn.type = "topic"
                  THEN [ok |-> TRUE, records |-> Append(rest.records, TopicFromJSON(recordDictIn))]
             ELSE [ok |-> FALSE, records |-> <<>>]

fromJSONDict(dictIn) ==
    LET r == fromJSONRecords(dictIn)
    IN  IF r.ok THEN [ok |-> TRUE, db |-> Database(r.records)]
        ELSE [ok |-> FALSE, db |-> <<>>]


(***************************************************************************)
(* The values the model draws its inputs from.                             *)
(***************************************************************************)
UidA == UID(<<"a">>)
UidB == UID(<<"b">>)
UidC == UID(<<"c">>)
Uids == {UidA, UidB, UidC}

Rat(num, den) == [num |-> num, den |-> den]

SampleTimes ==
    { [year |-> 2023, month |-> 1, day |-> 1, hour |-> 0, minute |-> 0, second |-> 0,
       microsecond |-> 0, tz |-> UTC],
      [year |-> 2024, month |-> 2, day |-> 29, hour |-> 23, minute |-> 59, second |-> 59,
       microsecond |-> 50, tz |-> Naive],
      [year |-> 2023, month |-> 12, day |-> 31, hour |-> 12, minute |-> 5, second |-> 9,
       microsecond |-> 999999, tz |-> [aware |-> TRUE, offset |-> -330]] }

TimeAt(y) == CHOOSE t \in SampleTimes : t.year = y /\ (y = 2023 => t.month = 1)
TimeOffset == CHOOSE t \in SampleTimes : t.tz.offset # 0

\* the records handed to the Database's operations
RecordUniverse ==
    { Subject(UidA, "math", TRUE, Rat(5, 2), 0),
      Subject(UidA, "art", FALSE, Rat(1, 1), 5),
      Subject(UidB, "t", TRUE, Rat(-1, 1), -3),
      Topic(UidB, "t", UidA, TRUE, NEW_TOPIC_DEFAULT_FIB, TimeAt(2023)),
      Topic(UidC, "t", UidA, FALSE, 5, TimeAt(2024)),
      Topic(UidC, "u", UidB, TRUE, 3, TimeOffset) }

Kinds == {"Subject", "Topic"}

(***************************************************************************)
(* The Database's operations as calls on the program's database.           *)
(***************************************************************************)
DbFrame == UNCHANGED <<fibNumbers, timeLookup, now, defaultDTime>>

insert(record) ==
    LET r == dbInsert(recordDict, record)
    IN  /\ recordDict' = r.db
        /\ ret' = [op |-> "insert", arg |-> record, ok |-> r.ok, val |-> r.val]
        /\ DbFrame

delete(uid) ==
    LET r == dbDelete(recordDict, uid)
    IN  /\ recordDict' = r.db
        /\ ret' = [op |-> "delete", arg |-> uid, ok |-> r.ok, val |-> r.val]
        /\ DbFrame

get(uid) ==
    LET r == dbGet(recordDict, uid)
    IN  /\ recordDict' = r.db
        /\ ret' = [op |-> "get", arg |-> uid, ok |-> r.ok, val |-> r.val]
        /\ DbFrame

update(record) ==
    LET r == dbUpdate(recordDict, record)
    IN  /\ recordDict' = r.db
        /\ ret' = [op |-> "update", arg |-> record, ok |-> r.ok, val |-> r.val]
        /\ DbFrame

query(queryTypes, predicate) ==
    /\ ret' = [op |-> "query", arg |-> [queryTypes |-> queryTypes, query |-> predicate],
               ok |-> TRUE, val |-> dbQuery(recordDict, queryTypes, predicate)]
    /\ UNCHANGED recordDict
    /\ DbFrame

\* db.py:258-275, dumpToFile(path) followed by loadFromFile(path): json.dump and
\* json.load carry the str, bool, int and float values of the JSON dict unchanged
dumpThenLoad ==
    LET r == fromJSONDict(toJSONDict(recordDict))
    IN  /\ ret' = [op |-> "dumpThenLoad", arg |-> "db.json", ok |-> r.ok, val |-> r.db]
        /\ UNCHANGED recordDict
        /\ DbFrame

ClockZero == [days |-> 0, seconds |-> 0, microseconds |-> 0]

\* a Database constructed from any list of records
Init ==
    /\ recordDict \in {Database(records) : records \in SeqsUpTo(RecordUniverse, MaxRecords)}
    /\ fibNumbers = <<1, 1>>
    /\ timeLookup = <<>>
    /\ now = ClockZero
    /\ defaultDTime = DatetimeNow(ClockZero)
    /\ ret = NoRet

Next ==
    \/ \E record \in RecordUniverse : insert(record)
    \/ \E record \in RecordUniverse : update(record)
    \/ \E uid \in Uids : delete(uid)
    \/ \E uid \in Uids : get(uid)
    \/ \E queryTypes \in SUBSET Kinds, predicate \in Predicates : query(queryTypes, predicate)
    \/ dumpThenLoad

Spec == Init /\ [][Next]_vars

(***************************************************************************)
(* The Fibonacci engine on its own.                                        *)
(***************************************************************************)
InitFib ==
    /\ recordDict = <<>>
    /\ fibNumbers = <<1, 1>>
    /\ timeLookup = <<>>
    /\ now = ClockZero
    /\ defaultDTime = DatetimeNow(ClockZero)
    /\ ret = NoRet

\* the indices handed to fibGenerator: invalid ones, memoized ones and the largest
GenIndices == {-1, 0, 1, 4, MaxN - 1, MaxN}

NextFib ==
    \/ \E n \in -2..MaxN : getNthFibNumber(n)
    \/ \E numSeq \in SeqsUpTo(GenIndices, MaxSeqLen) : fibGenerator(numSeq)
    \/ \E x \in -1..F(MaxN) : isXAFibNumber(x)

SpecFib == InitFib /\ [][NextFib]_vars


(***************************************************************************)
(* Predictor, predict.py.                                                  *)
(***************************************************************************)
\* Python's round() of the rational num/den (den > 0): to the nearest integer, a
\* half to the even neighbour
roundHalfUp(num, den) ==
    LET q == num \div den
        r == num % den
    IN  IF 2 * r >= den THEN q + 1 ELSE q

round(num, den) ==
    LET q == num \div den
        r == num % den
    IN  IF 2 * r < den THEN q
        ELSE IF 2 * r > den THEN q + 1
        ELSE IF q % 2 = 0 THEN q ELSE q + 1

\* predict.py:56, round(rawFibPred * subjectWeight + subjectBias)
actualPred(rawFibPred, subjectWeight, subjectBias) ==
    round(rawFibPred * subjectWeight.num + subjectBias * subjectWeight.den, subjectWeight.den)

\* predict.py:42-45, the lookup from each Subject's uid to (weight, bias)
RECURSIVE subjectWAndTup(_)
subjectWAndTup(db) ==
    IF db = <<>> THEN <<>>
    ELSE LET subject == db[Len(db)][2]
             rest == subjectWAndTup(SubSeq(db, 1, Len(db) - 1))
         IN  IF subject.kind = "Subject"
             THEN DictSet(rest, subject.uid, <<subject.weight, subject.bias>>)
             ELSE rest

\* predict.py:49-59, the loop over the records from position i on; readings[i] is
\* what the clock reads when record i is reached.  [ok, val, resultDict, memo]:
\* resultDict is the loop's local result so far, val the mapping returned or the
\* exception raised.
RECURSIVE predictLoop(_, _, _, _, _, _)
predictLoop(db, lookup, readings, i, resultDict, memo) ==
    IF i > Len(db)
    THEN [ok |-> TRUE, val |-> resultDict, resultDict |-> resultDict, memo |-> memo]
    ELSE LET item == db[i][2]
         IN  IF item.kind # "Topic"
             THEN predictLoop(db, lookup, readings, i + 1, resultDict, memo)
             ELSE LET fib == getNth(memo, item.fibNumber)
                  IN  IF ~fib.ok
                      THEN [ok |-> FALSE, val |-> fib.val, resultDict |-> resultDict,
                            memo |-> fib.memo]
                      ELSE IF item.subjectUID \notin Keys(lookup)
                      THEN [ok |-> FALSE, val |-> "KeyError", resultDict |-> resultDict,
                            memo |-> fib.memo]
                      ELSE LET wb == DictGet(lookup, item.subjectUID)
                               days == actualPred(fib.val, wb[1], wb[2])
                               when == AddDays(DatetimeNow(readings[i]), days)
                           IN  predictLoop(db, lookup, readings, i + 1,
                                           DictSet(resultDict, item.uid, when), fib.memo)

\* predict.py:32-63, Predictor.predict on the database db
predictRun(db, memo, readings) ==
    predictLoop(db, subjectWAndTup(db), readings, 1, <<>>, memo)

\* predict.py:61, self.timeLookup = resultDict, reached only when the loop ends
timeLookupStoredInLoop(old, r) == r.resultDict

timeLookupAfter(old, r) == IF r.ok THEN r.resultDict ELSE old

\* the instants the clock is sampled at, in order
Instants ==
    << [days |-> 0, seconds |-> 0, microseconds |-> 0],
       [days |-> 58, seconds |-> 86399, microseconds |-> 999999] >>

\* the clock readings of one call that starts at clock c on a database of n records
Readings(c, n) ==
    {rd \in [1..n -> Range(Instants)] :
        /\ \A i \in 1..n : ClockLeq(c, rd[i])
        /\ \A i \in 1..n, j \in 1..n : i <= j => ClockLeq(rd[i], rd[j])}

predict(readings) ==
    LET r == predictRun(recordDict, fibNumbers, readings)
    IN  /\ fibNumbers' = r.memo
        /\ timeLookup' = timeLookupAfter(timeLookup, r)
        /\ now' = IF readings = <<>> THEN now ELSE readings[Len(readings)]
        /\ ret' = [op |-> "predict", ok |-> r.ok, val |-> r.val,
                   at |-> now, readings |-> readings]
        /\ UNCHANGED <<recordDict, defaultDTime>>

\* time passes between two calls
Tick(c) ==
    /\ ClockLeq(now, c) /\ c # now
    /\ now' = c
    /\ ret' = [op |-> "Tick", ok |-> TRUE]
    /\ UNCHANGED <<recordDict, fibNumbers, timeLookup, defaultDTime>>

(***************************************************************************)
(* The predictor on any database (SpecPredict).                            *)
(***************************************************************************)
UidD == UID(<<"d">>)

PredictUniverse ==
    { Subject(UidA, "math", TRUE, Rat(5, 2), 0),
      Subject(UidB, "art", TRUE, Rat(1, 1), 5),
      Subject(UidB, "art", TRUE, Rat(-3, 2), 0),
      Topic(UidC, "t", UidA, TRUE, NEW_TOPIC_DEFAULT_FIB, TimeAt(2023)),
      Topic(UidC, "t", UidB, TRUE, 5, TimeAt(2023)),
      Topic(UidD, "u", UidA, TRUE, 4, TimeAt(2024)),
      Topic(UidD, "u", UidB, TRUE, 5, TimeAt(2024)),
      Topic(UidD, "u", UidA, TRUE, 0, TimeAt(2024)) }

InitPredict ==
    /\ recordDict \in {Database(records) : records \in SeqsUpTo(PredictUniverse, MaxRecords)}
    /\ fibNumbers = <<1, 1>>
    /\ timeLookup = <<>>
    /\ now = ClockZero
    /\ defaultDTime = DatetimeNow(ClockZero)
    /\ ret = NoRet

NextPredict ==
    \/ \E readings \in Readings(now, Len(recordDict)) : predict(readings)
    \/ \E record \in PredictUniverse : update(record)
    \/ \E uid \in {UidA, UidB, UidC, UidD} : delete(uid)

SpecPredict == InitPredict /\ [][NextPredict]_vars

(***************************************************************************)
(* The command handlers, cli.py, on the program's database.                *)
(***************************************************************************)
MaxFib == 3          \* complete_task is taken while the topic's fibNumber is below it
MaxCliRecords == 3   \* create_subject and create_topic are taken while fewer records are stored

\* uid.py:19-32, UID(): generateUID draws 12 random bytes and appends the time; the
\* model takes the first atom that no stored record is keyed by
UidAtoms == <<"a", "b", "c", "d", "e", "f">>
generateUID(db) ==
    LET free == {i \in 1..Len(UidAtoms) : UID(<<UidAtoms[i]>>) \notin Keys(db)}
    IN  <<UidAtoms[CHOOSE i \in free : \A j \in free : i <= j]>>

\* validators.py:57-72, getSubjectNames
getSubjectNames(db) ==
    LET subjects == SelectSeq(Values(db), LAMBDA record : record.kind = "Subject")
    IN  [i \in 1..Len(subjects) |-> subjects[i].name]

\* cli.py:91-95 and cli.py:112-116: the uid strings of the Subjects named
\* subjectName, appended to one another in record order
RECURSIVE subjUIDOf(_, _)
subjUIDOf(db, subjectName) ==
    IF db = <<>> THEN <<>>
    ELSE LET record == db[Len(db)][2]
             rest == subjUIDOf(SubSeq(db, 1, Len(db) - 1), subjectName)
         IN  IF record.kind = "Subject" /\ record.name = subjectName
             THEN rest \o record.uid.uid
             ELSE rest

\* cli.py:119-123
allTopicsOf(db, subjUID) ==
    SelectSeq(Values(db), LAMBDA record : record.kind = "Topic" /\ record.subjectUID.uid = subjUID)

\* cli.py:141-144
RECURSIVE topicUIDOf(_, _)
topicUIDOf(allTopics, topicName) ==
    IF allTopics = <<>> THEN <<>>
    ELSE LET topic == allTopics[Len(allTopics)]
             rest == topicUIDOf(SubSeq(allTopics, 1, Len(allTopics) - 1), topicName)
         IN  IF topic.name = topicName THEN rest \o topic.uid.uid ELSE rest

CliFrame == UNCHANGED <<fibNumbers, timeLookup, now, defaultDTime>>

\* cli.py:27-55
createSubject(subjectName, subjWeight, subjBias) ==
    LET newSubject == Subject(UID(generateUID(recordDict)), subjectName, TRUE, subjWeight, subjBias)
        r == dbInsert(recordDict, newSubject)
    IN  /\ Len(recordDict) < MaxCliRecords
        /\ recordDict' = r.db
        /\ ret' = [op |-> "createSubject", ok |-> r.ok, uid |-> newSubject.uid, at |-> now]
        /\ CliFrame

\* cli.py:84-101; the prompt returns only a name getSubjectNames lists; the Topic is
\* constructed without fibNumber and dTime, so with the defaults of db.py:153-154
createTopic(topicName, subjectName) ==
    LET subjUID == subjUIDOf(recordDict, subjectName)
        newTopic == Topic(UID(generateUID(recordDict)), topicName, UID(subjUID), TRUE,
                          NEW_TOPIC_DEFAULT_FIB, defaultDTime)
        r == dbInsert(recordDict, newTopic)
    IN  /\ Len(recordDict) < MaxCliRecords
        /\ subjectName \in Range(getSubjectNames(recordDict))
        /\ recordDict' = r.db
        /\ ret' = [op |-> "createTopic", ok |-> r.ok, uid |-> newTopic.uid, at |-> now]
        /\ CliFrame

\* cli.py:151, topic.fibNumber += 1
completedTwice(topic) == [topic EXCEPT !.fibNumber = @ + 2]

completed(topic) == [topic EXCEPT !.fibNumber = @ + 1]

\* cli.py:103-154; both prompts return only a listed name.  db.get returns the stored
\* object, so the increment is on the stored record and db.update stores it again.
completeTask(subjectName, topicName) ==
    LET subjUID == subjUIDOf(recordDict, subjectName)
        allTopics == allTopicsOf(recordDict, subjUID)
        topicUID == topicUIDOf(allTopics, topicName)
        got == dbGet(recordDict, UID(topicUID))
    IN  /\ subjectName \in Range(getSubjectNames(recordDict))
        /\ topicName \in {allTopics[i].name : i \in 1..Len(allTopics)}
        /\ IF ~got.ok
           THEN /\ ret' = [op |-> "completeTask", ok |-> FALSE, uid |-> UID(topicUID), at |-> now]
                /\ UNCHANGED recordDict
           ELSE /\ got.val.fibNumber < MaxFib
                /\ recordDict' = dbUpdate(recordDict, completed(got.val)).db
                /\ ret' = [op |-> "completeTask", ok |-> TRUE, uid |-> UID(topicUID), at |-> now]
        /\ CliFrame

SubjectNames == {"math", "art"}
TopicNames == {"t", "u"}
Weights == {Rat(5, 2), Rat(-1, 1)}
Biases == {0, 5}

\* cli.py:19-23 with no db.json: an empty Database; db.py was imported at ClockZero
InitCli ==
    /\ recordDict = Database(<<>>)
    /\ fibNumbers = <<1, 1>>
    /\ timeLookup = <<>>
    /\ now = ClockZero
    /\ defaultDTime = DatetimeNow(ClockZero)
    /\ ret = NoRet

NextCli ==
    \/ \E subjectName \in SubjectNames, subjWeight \in Weights, subjBias \in Biases :
          createSubject(subjectName, subjWeight, subjBias)
    \/ \E topicName \in TopicNames, subjectName \in SubjectNames :
          createTopic(topicName, subjectName)
    \/ \E subjectName \in SubjectNames, topicName \in TopicNames :
          completeTask(subjectName, topicName)
    \/ \E c \in Range(Instants) : Tick(c)

SpecCli == InitCli /\ [][NextCli]_vars

(***************************************************************************)
(* Claims about the predictor (checked under SpecPredict).                 *)
(***************************************************************************)
Abs(x) == IF x < 0 THEN -x ELSE x
DayRange == -40..40

\* the Subjects' uids, and the Topics that reference none of them
SubjectUids(db) == {db[i][2].uid : i \in {j \in 1..Len(db) : db[j][2].kind = "Subject"}}
Dangling(db) ==
    {i \in 1..Len(db) : db[i][2].kind = "Topic" /\ db[i][2].subjectUID \notin SubjectUids(db)}

\* k is x rounded, x = num/den: k is within a half of x, and where x lies half way
\* between two integers k is as `even` says: TRUE the even one, FALSE the greater one
IsRounded(k, num, den, even) ==
    /\ 2 * Abs(num - k * den) <= den
    /\ 2 * Abs(num - k * den) = den => IF even THEN k % 2 = 0 ELSE k * den > num

\* every Topic is mapped to a clock reading of the call plus k days, k being
\* F(fibNumber) * weight + bias rounded
MapsTopics(even) ==
    /\ Keys(ret.val) = {recordDict[i][1] : i \in {j \in 1..Len(recordDict) :
                                                   recordDict[j][2].kind = "Topic"}}
    /\ \A i \in 1..Len(recordDict) :
          LET topic == recordDict[i][2]
          IN  topic.kind = "Topic" =>
                LET subject == DictGet(recordDict, topic.subjectUID)
                    w == subject.weight
                IN  /\ ClockLeq(ret.at, ret.readings[i]) /\ ClockLeq(ret.readings[i], now)
                    /\ \E k \in DayRange :
                          /\ IsRounded(k, F(topic.fibNumber) * w.num + subject.bias * w.den,
                                       w.den, even)
                          /\ DictGet(ret.val, topic.uid)
                               = AddDays(DatetimeNow(ret.readings[i]), k)

\* C1 as claimed: predict() maps every Topic to the current UTC time plus
\* round(F(fibNumber) * weight + bias) days, a half being rounded up, so that
\* weight 2.5, bias 0, fibNumber 2 gives now + 3 days.
C1_AsClaimed == ret.op = "predict" /\ ret.ok => MapsTopics(FALSE)

\* C1, amended: predict() maps every Topic to the current UTC time plus
\* round(F(fibNumber) * weight + bias) days, a half being rounded to the even
\* neighbour: weight 2.5, bias 0, fibNumber 2 gives now + 2 days, and weight 1.0,
\* bias 5, fibNumber 5 gives now + 10 days.
C1_PredictRoundsHalfToEven == ret.op = "predict" /\ ret.ok => MapsTopics(TRUE)

\* C1 witness: predict() has mapped the Topic with fibNumber 2 of the Subject with
\* weight 2.5 and bias 0, read at 2023-02-28T23:59:59.999999, to 2023-03-02 (2 days
\* on), and the Topic with fibNumber 5 of the Subject with weight 1.0 and bias 5 to
\* 2023-03-10 (10 days on).
C1_Witness ==
    /\ ret.op = "predict" /\ ret.ok
    /\ \E i, j \in 1..Len(recordDict) :
          LET t == recordDict[i][2]
              u == recordDict[j][2]
          IN  /\ t.kind = "Topic" /\ t.fibNumber = 2
              /\ DictGet(recordDict, t.subjectUID).weight = Rat(5, 2)
              /\ DictGet(recordDict, t.subjectUID).bias = 0
              /\ DictGet(ret.val, t.uid) =
                   [year |-> 2023, month |-> 3, day |-> 2, hour |-> 23, minute |-> 59,
                    second |-> 59, microsecond |-> 999999, tz |-> UTC]
              /\ u.kind = "Topic" /\ u.fibNumber = 5
              /\ DictGet(recordDict, u.subjectUID).weight = Rat(1, 1)
              /\ DictGet(recordDict, u.subjectUID).bias = 5
              /\ DictGet(ret.val, u.uid) =
                   [year |-> 2023, month |-> 3, day |-> 10, hour |-> 23, minute |-> 59,
                    second |-> 59, microsecond |-> 999999, tz |-> UTC]

\* C4: when a Topic's subjectUID is not the uid of a Subject of the Database,
\* predict() fails, returns no mapping and leaves timeLookup as it was, whatever the
\* order of the records.
C4_NoPartialResult ==
    [][ ret'.op = "predict" /\ Dangling(recordDict) # {} =>
          /\ ~ret'.ok
          /\ ret'.val \in {"KeyError", "ValueError"}
          /\ timeLookup' = timeLookup ]_vars

\* C4 witness: predict() has failed on a missing Subject after it had computed the
\* date of an earlier Topic, with the timeLookup of an earlier call in place.
C4_Witness ==
    /\ ret.op = "predict" /\ ~ret.ok /\ ret.val = "KeyError"
    /\ timeLookup # <<>>
    /\ \E i, j \in 1..Len(recordDict) :
          /\ i < j /\ j \in Dangling(recordDict)
          /\ recordDict[i][2].kind = "Topic" /\ i \notin Dangling(recordDict)

(***************************************************************************)
(* Claims about the command handlers (checked under SpecCli).              *)
(***************************************************************************)
\* the day offset predict() computes for the Topic keyed uid in db
OffsetOf(db, uid) ==
    LET topic == DictGet(db, uid)
        wb == DictGet(subjectWAndTup(db), topic.subjectUID)
    IN  actualPred(getNth(fibNumbers, topic.fibNumber).val, wb[1], wb[2])

\* a complete_task step that completed the Topic ret'.uid
Completes == ret'.op = "completeTask" /\ ret'.ok

\* predict() computes an offset for the Topic: its Subject is stored
HasSubject(db, uid) == DictGet(db, uid).subjectUID \in SubjectUids(db)

WeightOf(db, uid) == DictGet(db, DictGet(db, uid).subjectUID).weight

\* the step changed the Topic's fibNumber by exactly +1 and nothing else
IncrementsOnly ==
    /\ DictGet(recordDict', ret'.uid).fibNumber = DictGet(recordDict, ret'.uid).fibNumber + 1
    /\ recordDict' = DictSet(recordDict, ret'.uid,
                             [DictGet(recordDict, ret'.uid) EXCEPT
                                 !.fibNumber = DictGet(recordDict', ret'.uid).fibNumber])

\* C2 as claimed: completing a topic increments its fibNumber by exactly 1 and, for
\* every storable weight and bias, the offset predict() computes for it afterwards
\* is at least the offset it computed before.
C2_AsClaimed ==
    [][ Completes =>
          /\ IncrementsOnly
          /\ (HasSubject(recordDict, ret'.uid)
                => OffsetOf(recordDict', ret'.uid) >= OffsetOf(recordDict, ret'.uid)) ]_vars

\* C2, amended: completing a topic increments its fibNumber by exactly 1 and, for
\* every Subject weight >= 0 and every bias, the offset predict() computes for it
\* afterwards is at least the offset it computed before.
C2_CompletionMonotoneForNonNegativeWeight ==
    [][ Completes =>
          /\ IncrementsOnly
          /\ (HasSubject(recordDict, ret'.uid) /\ WeightOf(recordDict, ret'.uid).num >= 0
                => OffsetOf(recordDict', ret'.uid) >= OffsetOf(recordDict, ret'.uid)) ]_vars

\* C2 witness: a Topic of a Subject with weight 2.5 has been completed to fibNumber 3,
\* where its offset is 5 days (it was 2 at fibNumber 2).
C2_Witness ==
    /\ ret.op = "completeTask" /\ ret.ok
    /\ DictGet(recordDict, ret.uid).fibNumber = 3
    /\ HasSubject(recordDict, ret.uid)
    /\ WeightOf(recordDict, ret.uid) = Rat(5, 2)
    /\ OffsetOf(recordDict, ret.uid) > 2

\* C3: a Topic constructed without a timestamp has lastStudy equal to the time at
\* which it is constructed.
C3_LastStudyIsCreationTime ==
    ret.op = "createTopic" /\ ret.ok =>
        DictGet(recordDict, ret.uid).lastStudy = DatetimeNow(ret.at)

(***************************************************************************)
(* Claims about the Database (checked under Spec).                         *)
(***************************************************************************)
\* C5: in every reachable state of a Database constructed from a record list and
\* operated on by insert, update, delete, get and query, every key of the mapping
\* equals the uid of the record stored under it (and no key is held twice).
C5_KeyIsRecordUid ==
    /\ \A i \in 1..Len(recordDict) : recordDict[i][1] = recordDict[i][2].uid
    /\ \A i, j \in 1..Len(recordDict) : recordDict[i][1] = recordDict[j][1] => i = j

\* C5 witness: a successful insert has left two or more records stored, one a Topic
\* whose subjectUID differs from its own uid.
C5_Witness ==
    /\ ret.op = "insert" /\ ret.ok
    /\ Len(recordDict) >= 2
    /\ ret.arg.kind = "Topic" /\ ret.arg.subjectUID # ret.arg.uid
    /\ ret.arg.uid \in Keys(recordDict)

\* C6: an insert of a present uid fails, an update, delete or get of an absent uid
\* fails, and every failing call leaves the mapping (keys, records, order) as it was.
C6_FailedCallLeavesDatabase ==
    [][ /\ (ret'.op = "insert" /\ ret'.arg.uid \in Keys(recordDict) => ~ret'.ok)
        /\ (ret'.op = "update" /\ ret'.arg.uid \notin Keys(recordDict) => ~ret'.ok)
        /\ (ret'.op \in {"delete", "get"} /\ ret'.arg \notin Keys(recordDict) => ~ret'.ok)
        /\ (ret'.op \in {"insert", "update", "delete", "get"} /\ ~ret'.ok
              => recordDict' = recordDict) ]_vars

\* C6 witness: an insert of a uid that is stored has failed, and the stored record
\* differs from the one offered.
C6_Witness ==
    /\ ret.op = "insert" /\ ~ret.ok
    /\ ret.arg.uid \in Keys(recordDict)
    /\ DictGet(recordDict, ret.arg.uid) # ret.arg

\* the mapping m with the entry k -> v written, and with the entry of k removed
MapWith(m, k, v) == [x \in DOMAIN m \cup {k} |-> IF x = k THEN v ELSE m[x]]
MapWithout(m, k) == [x \in DOMAIN m \ {k} |-> m[x]]

\* C7: a successful insert adds exactly the entry record.uid -> record, a successful
\* update replaces exactly the value under record.uid by the record, a successful
\* delete removes exactly the entry of uid, every other entry staying as it was; a get
\* returns the record stored; so a get after the insert or update returns the record
\* written and a get after the delete fails.
C7_SuccessfulCallFrame ==
    [][ /\ (ret'.op = "insert" /\ ret'.ok =>
              /\ ret'.arg.uid \notin Keys(recordDict)
              /\ AsMap(recordDict') = MapWith(AsMap(recordDict), ret'.arg.uid, ret'.arg)
              /\ dbGet(recordDict', ret'.arg.uid).ok
              /\ dbGet(recordDict', ret'.arg.uid).val = ret'.arg)
        /\ (ret'.op = "update" /\ ret'.ok =>
              /\ ret'.arg.uid \in Keys(recordDict)
              /\ AsMap(recordDict') = MapWith(AsMap(recordDict), ret'.arg.uid, ret'.arg)
              /\ dbGet(recordDict', ret'.arg.uid).ok
              /\ dbGet(recordDict', ret'.arg.uid).val = ret'.arg)
        /\ (ret'.op = "delete" /\ ret'.ok =>
              /\ ret'.arg \in Keys(recordDict)
              /\ AsMap(recordDict') = MapWithout(AsMap(recordDict), ret'.arg)
              /\ ~dbGet(recordDict', ret'.arg).ok)
        /\ (ret'.op = "get" /\ ret'.ok =>
              /\ recordDict' = recordDict
              /\ ret'.val = AsMap(recordDict)[ret'.arg]) ]_vars

\* C7 witness: an update has stored the Subject named t in a database that holds
\* other records too.
C7_Witness ==
    /\ ret.op = "update" /\ ret.ok
    /\ Len(recordDict) >= 2
    /\ DictGet(recordDict, ret.arg.uid) = ret.arg
    /\ ret.arg.name = "t" /\ ret.arg.kind = "Subject"

\* C8: query(kinds, predicate) returns a new Database whose mapping is exactly the
\* source's mapping restricted to the records whose variant is in kinds and that
\* satisfy the predicate (a function of the source's mapping alone, not of its
\* insertion order), and the source's mapping is left as it was.
C8_QueryExact ==
    [][ ret'.op = "query" =>
          /\ recordDict' = recordDict
          /\ LET src == AsMap(recordDict)
                 hit == {k \in DOMAIN src : /\ src[k].kind \in ret'.arg.queryTypes
                                            /\ Holds(ret'.arg.query, src[k])}
             IN  /\ AsMap(ret'.val) = [k \in hit |-> src[k]]
                 /\ Len(ret'.val) = Cardinality(hit) ]_vars

\* C8 witness: a query for Topics alone has kept one Topic and left out both a
\* Subject and a Topic of the source.
C8_Witness ==
    /\ ret.op = "query" /\ ret.arg.queryTypes = {"Topic"} /\ ret.arg.query = "active"
    /\ Len(ret.val) = 1
    /\ \E i, j \in 1..Len(recordDict) :
          /\ recordDict[i][2].kind = "Subject" /\ recordDict[i][2].active
          /\ recordDict[j][2].kind = "Topic" /\ ~recordDict[j][2].active

\* C9: decoding the encoding of the Database, fromJSONDict(toJSONDict(db)), succeeds
\* and yields a Database with the identical key set in which every record has the
\* variant and the fields (timestamp included) of the original.
C9_RoundTrip ==
    ret.op = "dumpThenLoad" =>
        /\ ret.ok
        /\ Keys(ret.val) = Keys(recordDict)
        /\ \A k \in Keys(recordDict) : DictGet(ret.val, k) = DictGet(recordDict, k)

\* C9 witness: a database holding a Subject and a Topic whose lastStudy has
\* microseconds has been encoded and decoded.
C9_Witness ==
    /\ ret.op = "dumpThenLoad" /\ ret.ok
    /\ \E i, j \in 1..Len(recordDict) :
          /\ recordDict[i][2].kind = "Subject"
          /\ recordDict[j][2].kind = "Topic" /\ recordDict[j][2].lastStudy.microsecond # 0

(***************************************************************************)
(* Claims about the Fibonacci engine (checked under SpecFib).              *)
(***************************************************************************)
\* C10: after any sequence of earlier calls, getNthFibNumber(n) returns the
\* 1-indexed Fibonacci term F(n) for every n >= 1 and fails with a ValueError for
\* n = 0 and for every n < 0.
C10_NthFibonacci ==
    ret.op = "getNthFibNumber" =>
        IF ret.n >= 1 THEN ret.ok /\ ret.val = F(ret.n)
        ELSE ~ret.ok /\ ret.val = "ValueError"

\* C10 witness: a call for a term below the memo's length, made after the memo was
\* extended, returned a term greater than 2.
C10_Witness ==
    /\ ret.op = "getNthFibNumber" /\ ret.ok
    /\ ret.n < Len(fibNumbers) /\ ret.n > 4


(***************************************************************************)
(* The Fibonacci engine with its callers (SpecMemo): the three methods of  *)
(* FibNumbers and Predictor.predict, which calls getNthFibNumber for each  *)
(* Topic before it looks the Topic's Subject up.                           *)
(***************************************************************************)
MaxMemoRecords == 2  \* longest record list the predicted Database is constructed from

MemoUniverse ==
    { Subject(UidA, "math", TRUE, Rat(5, 2), 0),
      Topic(UidC, "t", UidA, TRUE, 5, TimeAt(2023)),
      Topic(UidC, "t", UidB, TRUE, MaxN + 1, TimeAt(2023)),
      Topic(UidD, "u", UidA, TRUE, 0, TimeAt(2024)) }

InitMemo ==
    /\ recordDict \in {Database(records) : records \in SeqsUpTo(MemoUniverse, MaxMemoRecords)}
    /\ fibNumbers = <<1, 1>>
    /\ timeLookup = <<>>
    /\ now = ClockZero
    /\ defaultDTime = DatetimeNow(ClockZero)
    /\ ret = NoRet

\* the arguments of fibGenerator and isXAFibNumber: invalid, memoized and largest
MemoGenIndices == {0, 3, MaxN}
MemoXs == {-1, 1, 4, F(MaxN) - 1, F(MaxN)}

NextMemo ==
    \/ \E n \in -2..MaxN : getNthFibNumber(n)
    \/ \E numSeq \in SeqsUpTo(MemoGenIndices, MaxSeqLen) : fibGenerator(numSeq)
    \/ \E x \in MemoXs : isXAFibNumber(x)
    \/ \E readings \in Readings(now, Len(recordDict)) : predict(readings)

SpecMemo == InitMemo /\ [][NextMemo]_vars

(***************************************************************************)
(* Claims about the memo (checked under SpecMemo).                         *)
(***************************************************************************)
\* the memo starts with 1, 1 and every later term is the sum of the two before it
MemoWellFormed(memo) ==
    /\ Len(memo) >= 2 /\ memo[1] = 1 /\ memo[2] = 1
    /\ \A i \in 3..Len(memo) : memo[i] = memo[i - 1] + memo[i - 2]

\* C11: over every call of getNthFibNumber, fibGenerator, isXAFibNumber and predict,
\* failing calls included, the memo starts with [1, 1], every stored term after the
\* second is the sum of the two before it, no stored term is changed or removed, a
\* getNthFibNumber(n) with n at or below the memo's length leaves the memo as it
\* was, and one with n above it leaves the memo with length exactly n.
C11_MemoAppendOnly ==
    [][ /\ MemoWellFormed(fibNumbers) /\ MemoWellFormed(fibNumbers')
        /\ Len(fibNumbers') >= Len(fibNumbers)
        /\ SubSeq(fibNumbers', 1, Len(fibNumbers)) = fibNumbers
        /\ (ret'.op = "getNthFibNumber" =>
              IF ret'.n <= Len(fibNumbers) THEN fibNumbers' = fibNumbers
              ELSE Len(fibNumbers') = ret'.n) ]_vars

\* C11 witness: a predict() that failed on a missing Subject has left the memo
\* extended to the failing Topic's fibNumber, beyond what the other calls ask for.
C11_Witness ==
    /\ ret.op = "predict" /\ ~ret.ok /\ ret.val = "KeyError"
    /\ Len(fibNumbers) = MaxN + 1
    /\ fibNumbers[MaxN + 1] = F(MaxN + 1)


(***************************************************************************)
(* Claims about the references the command handlers store (SpecCli).       *)
(***************************************************************************)
\* C12: from an empty Database, after any sequence of create_subject, create_topic
\* and complete_task, every Topic's subjectUID is the uid of a stored Subject, and
\* a predict() on the Database does not fail on a missing Subject.
C12_TopicsReferenceStoredSubjects ==
    /\ Dangling(recordDict) = {}
    /\ predictRun(recordDict, fibNumbers, [i \in 1..Len(recordDict) |-> now]).val # "KeyError"

=============================================================================
